---- MODULE Spec2Model ----
(***************************************************************************)
(* The data-access and persistence layer of src/app.py: one JSON file      *)
(* holding {users, entries}, and the functions that load it, change an     *)
(* in-memory copy and write the whole document back.                       *)
(*                                                                         *)
(* Spec        every function called as one uninterrupted load/mutate/save *)
(*             cycle (the single-operator use of the application).         *)
(* SpecCreate  only init_data, create_entry and get_entries, with the      *)
(*             history of the create_entry calls.                          *)
(* SpecConc    two sessions whose load and save steps interleave.          *)
(***************************************************************************)
EXTENDS Integers, Sequences, FiniteSets

(* ------------------------------ bounds --------------------------------- *)

\* create_entry is called at most MaxClock times (the clock stops there).
MaxClock == 3

(* ------------------------------ values --------------------------------- *)

\* Python's None, and a present value.
None == [some |-> FALSE]
Some(x) == [some |-> TRUE, val |-> x]

\* What a call that raised leaves in ret.
FileNotFoundError == [raised |-> "FileNotFoundError"]

Usernames == {"alice", "Alice"}
Passwords == {"pw123", "wrong"}
FullNames == {"Alice A"}

\* The user_id values the presentation layer passes (ids of logged-in users).
UserIds == {1, 2}

\* The five mutable fields of an entry, as one form submission.
ShahHouse ==
  [household_name |-> "Shah House", father_name |-> "R Shah",
   mobile_no |-> "9999999999", address |-> "12 MG Road", dustbin_number |-> 3]
RaoVilla ==
  [household_name |-> "Rao Villa", father_name |-> "K Rao",
   mobile_no |-> "8888888888", address |-> "4 Park Lane", dustbin_number |-> 0]
FieldSets == {ShahHouse, RaoVilla}

\* What the "New Entry" page passes to create_entry: the logged-in user's id,
\* the fields, and image_bytes, which is None (no picture), empty bytes, or
\* the first bytes of a JPEG.
Submissions ==
  { [user_id |-> 1, fields |-> ShahHouse, image_bytes |-> None],
    [user_id |-> 1, fields |-> ShahHouse, image_bytes |-> Some(<<>>)],
    [user_id |-> 2, fields |-> RaoVilla, image_bytes |-> Some(<<255, 216, 255, 224>>)] }

(* ------------------------- pure helper functions ----------------------- *)

\* hashlib.sha256(password.encode()).hexdigest(): a deterministic digest that
\* is never the plaintext; distinct passwords of Passwords have distinct digests.
hash_password(password) == <<"sha256", password>>

B64Alphabet ==
  << "A","B","C","D","E","F","G","H","I","J","K","L","M","N","O","P",
     "Q","R","S","T","U","V","W","X","Y","Z","a","b","c","d","e","f",
     "g","h","i","j","k","l","m","n","o","p","q","r","s","t","u","v",
     "w","x","y","z","0","1","2","3","4","5","6","7","8","9","+","/" >>

B64Char(n) == B64Alphabet[n + 1]

\* base64.b64encode(image_bytes).decode(): the characters of the encoding.
RECURSIVE b64encode(_)
b64encode(bs) ==
  IF Len(bs) = 0 THEN <<>>
  ELSE IF Len(bs) = 1 THEN
    << B64Char(bs[1] \div 4), B64Char((bs[1] % 4) * 16), "=", "=" >>
  ELSE IF Len(bs) = 2 THEN
    << B64Char(bs[1] \div 4), B64Char((bs[1] % 4) * 16 + bs[2] \div 16),
       B64Char((bs[2] % 16) * 4), "=" >>
  ELSE
    << B64Char(bs[1] \div 4), B64Char((bs[1] % 4) * 16 + bs[2] \div 16),
       B64Char((bs[2] % 16) * 4 + bs[3] \div 64), B64Char(bs[3] % 64) >>
    \o b64encode(SubSeq(bs, 4, Len(bs)))

\* `... if image_bytes else None`: None and b"" are both falsy.
encode_image(image_bytes) ==
  IF image_bytes.some /\ Len(image_bytes.val) > 0
  THEN Some(b64encode(image_bytes.val))
  ELSE None

\* The document init_data writes.
EmptyDocument == [users |-> <<>>, entries |-> <<>>]

(* ------------------------------- state --------------------------------- *)

VARIABLES
  file,      \* data.json: None when absent, else Some(document)
  now,       \* the clock datetime.now() reads; it advances between two reads
  called,    \* the name of the function called last
  argv,      \* the arguments it was called with
  ret,       \* the value it returned
  deleted,   \* history: the ids of the entries delete_entry has removed
  created,   \* history (SpecCreate): the create_entry calls, in call order
  sess       \* per session: its position in a load/mutate/save cycle

vars == <<file, now, deleted, created, sess, called, argv, ret>>

Sessions == {1, 2}

Idle == [pc |-> "idle"]

\* os.path.exists(DATA_FILE)
exists == file.some

\* load_data(): json.load of the file (raises when the file is absent).  The
\* document holds only lists, string-keyed dicts, strings, integers and None,
\* which json.dump and json.load carry over unchanged, so the file is kept as
\* the document it encodes.
load_data == file.val

\* save_data(data): the file is rewritten with the whole document.
save_data(data) == Some(data)

Init ==
  /\ file = None
  /\ now = 0
  /\ called = "start"
  /\ argv = <<>>
  /\ ret = None
  /\ deleted = {}
  /\ created = <<>>
  /\ sess = [s \in Sessions |-> Idle]

\* A call of function op with arguments args returns val.
Return(op, args, val) ==
  /\ called' = op
  /\ argv' = args
  /\ ret' = val

\* load_data on a missing file: open() raises and nothing is written.
Raises(op, args) ==
  /\ ~exists
  /\ Return(op, args, FileNotFoundError)
  /\ UNCHANGED <<file, now, deleted, sess>>

(* ------------------------------ init_data ------------------------------ *)

\* Mutant of init_data: writes the empty document whether or not the file exists.
init_data_overwrite ==
  /\ file' = save_data(EmptyDocument)
  /\ Return("init_data", <<>>, None)
  /\ UNCHANGED <<now, deleted, sess>>

init_data ==
  /\ file' = IF ~exists THEN save_data(EmptyDocument) ELSE file
  /\ Return("init_data", <<>>, None)
  /\ UNCHANGED <<now, deleted, sess>>

(* ------------------------------ auth ----------------------------------- *)

\* Mutant of username_exists: compares with the first user only.
username_exists_first(data, username) ==
  Len(data.users) > 0 /\ data.users[1].username = username

\* any(u['username'] == username for u in data['users'])
username_exists(data, username) ==
  \E i \in 1..Len(data.users) : data.users[i].username = username

new_user(data, username, password, full_name) ==
  [id |-> Len(data.users) + 1,
   username |-> username,
   password |-> hash_password(password),
   full_name |-> full_name]

\* The document register_user saves when the username is free.
register_data(data, username, password, full_name) ==
  [data EXCEPT !.users = Append(@, new_user(data, username, password, full_name))]

register_user(username, password, full_name) ==
  LET args == <<username, password, full_name>> IN
  \/ Raises("register_user", args)
  \/ /\ exists
     /\ username_exists(load_data, username)
     /\ Return("register_user", args, FALSE)
     /\ UNCHANGED <<file, now, deleted, sess>>
  \/ /\ exists
     /\ ~username_exists(load_data, username)
     /\ file' = save_data(register_data(load_data, username, password, full_name))
     /\ Return("register_user", args, TRUE)
     /\ UNCHANGED <<now, deleted, sess>>

\* Mutant of find_user: matches on the username alone.
find_user_by_name(data, username, password) ==
  LET hits == {i \in 1..Len(data.users) : data.users[i].username = username}
  IN IF hits = {} THEN None
     ELSE Some(data.users[CHOOSE i \in hits : \A j \in hits : i <= j])

\* The loop of login_user: the first user whose username and digest both match.
find_user(data, username, password) ==
  LET hashed == hash_password(password)
      hits == {i \in 1..Len(data.users) :
                 /\ data.users[i].username = username
                 /\ data.users[i].password = hashed}
  IN IF hits = {} THEN None
     ELSE Some(data.users[CHOOSE i \in hits : \A j \in hits : i <= j])

login_user(username, password) ==
  LET args == <<username, password>> IN
  \/ Raises("login_user", args)
  \/ /\ exists
     /\ Return("login_user", args, find_user(load_data, username, password))
     /\ UNCHANGED <<file, now, deleted, sess>>

(* ------------------------------ CRUD ----------------------------------- *)

\* The ids a caller passes to get_entry, update_entry and delete_entry.
EntryIds == 1..MaxClock

\* datetime.now().isoformat() at clock reading t.
isoformat(t) == <<"T", t>>

new_entry(data, user_id, fields, image_bytes, t) ==
  [id |-> Len(data.entries) + 1,
   user_id |-> user_id,
   household_name |-> fields.household_name,
   father_name |-> fields.father_name,
   mobile_no |-> fields.mobile_no,
   address |-> fields.address,
   dustbin_number |-> fields.dustbin_number,
   image |-> encode_image(image_bytes),
   created_at |-> isoformat(t)]

\* The document create_entry saves.
create_data(data, user_id, fields, image_bytes, t) ==
  [data EXCEPT !.entries = Append(@, new_entry(data, user_id, fields, image_bytes, t))]

create_entry(user_id, fields, image_bytes) ==
  LET args == <<user_id, fields, image_bytes>> IN
  \/ Raises("create_entry", args)
  \/ /\ exists
     /\ now < MaxClock
     /\ file' = save_data(create_data(load_data, user_id, fields, image_bytes, now))
     /\ now' = now + 1
     /\ Return("create_entry", args, None)
     /\ UNCHANGED <<deleted, sess>>

\* Mutant of entries_of: filters on e['id'] instead of e['user_id'].
entries_of_by_id(data, user_id) ==
  LET mine(e) == e.id = user_id IN SelectSeq(data.entries, mine)

\* [e for e in data['entries'] if e['user_id'] == user_id]
entries_of(data, user_id) ==
  LET mine(e) == e.user_id = user_id IN SelectSeq(data.entries, mine)

get_entries(user_id) ==
  \/ Raises("get_entries", <<user_id>>)
  \/ /\ exists
     /\ Return("get_entries", <<user_id>>, entries_of(load_data, user_id))
     /\ UNCHANGED <<file, now, deleted, sess>>

\* The loop of get_entry: the first entry with that id, or None.
find_entry(data, entry_id) ==
  LET hits == {i \in 1..Len(data.entries) : data.entries[i].id = entry_id}
  IN IF hits = {} THEN None
     ELSE Some(data.entries[CHOOSE i \in hits : \A j \in hits : i <= j])

get_entry(entry_id) ==
  \/ Raises("get_entry", <<entry_id>>)
  \/ /\ exists
     /\ Return("get_entry", <<entry_id>>, find_entry(load_data, entry_id))
     /\ UNCHANGED <<file, now, deleted, sess>>

\* Mutant of update_data: dustbin_number is not assigned.
update_data_no_dustbin(data, entry_id, fields) ==
  [data EXCEPT !.entries =
     [i \in 1..Len(@) |->
        IF @[i].id = entry_id
        THEN [@[i] EXCEPT !.household_name = fields.household_name,
                          !.father_name = fields.father_name,
                          !.mobile_no = fields.mobile_no,
                          !.address = fields.address]
        ELSE @[i]]]

\* The loop of update_entry: every entry with that id gets the five fields.
update_data(data, entry_id, fields) ==
  [data EXCEPT !.entries =
     [i \in 1..Len(@) |->
        IF @[i].id = entry_id
        THEN [@[i] EXCEPT !.household_name = fields.household_name,
                          !.father_name = fields.father_name,
                          !.mobile_no = fields.mobile_no,
                          !.address = fields.address,
                          !.dustbin_number = fields.dustbin_number]
        ELSE @[i]]]

update_entry(entry_id, fields) ==
  LET args == <<entry_id, fields>> IN
  \/ Raises("update_entry", args)
  \/ /\ exists
     /\ file' = save_data(update_data(load_data, entry_id, fields))
     /\ Return("update_entry", args, None)
     /\ UNCHANGED <<now, deleted, sess>>

\* Mutant of delete_data: removes the entry at position entry_id (the place
\* an entry with that id had before any deletion), whatever its id.
delete_data_by_index(data, entry_id) ==
  LET es == data.entries
      n == Len(es)
  IN IF entry_id > n THEN data
     ELSE [data EXCEPT !.entries =
             [i \in 1..(n - 1) |-> IF i < entry_id THEN es[i] ELSE es[i + 1]]]

\* [e for e in data['entries'] if e['id'] != entry_id]
delete_data(data, entry_id) ==
  LET keep(e) == e.id # entry_id IN
  [data EXCEPT !.entries = SelectSeq(@, keep)]

delete_entry(entry_id) ==
  \/ Raises("delete_entry", <<entry_id>>)
  \/ /\ exists
     /\ file' = save_data(delete_data(load_data, entry_id))
     /\ deleted' = IF find_entry(load_data, entry_id).some
                   THEN deleted \cup {entry_id} ELSE deleted
     /\ Return("delete_entry", <<entry_id>>, None)
     /\ UNCHANGED <<now, sess>>

(* ------------------------- the sequential program ---------------------- *)

\* Each call runs to completion before the next one starts.
Next ==
  \/ init_data /\ UNCHANGED created
  \/ \E u \in Usernames, p \in Passwords, n \in FullNames :
       register_user(u, p, n) /\ UNCHANGED created
  \/ \E u \in Usernames, p \in Passwords :
       login_user(u, p) /\ UNCHANGED created
  \/ \E sub \in Submissions :
       create_entry(sub.user_id, sub.fields, sub.image_bytes) /\ UNCHANGED created
  \/ \E u \in UserIds : get_entries(u) /\ UNCHANGED created
  \/ \E id \in EntryIds : get_entry(id) /\ UNCHANGED created
  \/ \E id \in EntryIds, f \in FieldSets : update_entry(id, f) /\ UNCHANGED created
  \/ \E id \in EntryIds : delete_entry(id) /\ UNCHANGED created

Spec == Init /\ [][Next]_vars

(* ---------------------- create_entry calls, recorded ------------------- *)

\* One create_entry call as the caller made it, at clock reading t.
Call(user_id, fields, image_bytes, t) ==
  [user_id |-> user_id, fields |-> fields, image_bytes |-> image_bytes, t |-> t]

NextCreate ==
  \/ init_data /\ UNCHANGED created
  \/ \E sub \in Submissions :
       /\ create_entry(sub.user_id, sub.fields, sub.image_bytes)
       /\ created' = IF exists
                     THEN Append(created,
                                 Call(sub.user_id, sub.fields, sub.image_bytes, now))
                     ELSE created
  \/ \E u \in UserIds : get_entries(u) /\ UNCHANGED created

SpecCreate == Init /\ [][NextCreate]_vars

(* ------------------------- two sessions, interleaved ------------------- *)

\* Streamlit runs each browser session's script in its own thread, and no
\* function takes a lock: between a session's load_data() and its save_data()
\* the other session may load and save.  Each session makes one call.

\* How many sessions have written the file.
Saved == Cardinality({s \in Sessions : sess[s].pc = "saved"})

\* create_entry up to and including `data = load_data()`.
begin_create_entry(s, user_id, fields, image_bytes) ==
  /\ exists
  /\ sess[s].pc = "idle"
  /\ sess' = [sess EXCEPT ![s] =
                [pc |-> "loaded", op |-> "create_entry",
                 args |-> <<user_id, fields, image_bytes>>, data |-> load_data]]
  /\ UNCHANGED <<file, now, deleted, called, argv, ret>>

\* Mutant of finish_create_entry: appends to the file's content at save time
\* instead of the copy loaded earlier.
finish_create_entry_reload(s) ==
  /\ sess[s].pc = "loaded"
  /\ sess[s].op = "create_entry"
  /\ now < MaxClock
  /\ file' = save_data(create_data(load_data, sess[s].args[1], sess[s].args[2],
                                   sess[s].args[3], now))
  /\ now' = now + 1
  /\ sess' = [sess EXCEPT ![s] =
                [pc |-> "saved", op |-> "create_entry", args |-> sess[s].args,
                 data |-> sess[s].data, at |-> now, seq |-> Saved + 1]]
  /\ Return("create_entry", sess[s].args, None)
  /\ UNCHANGED deleted

\* The rest of create_entry: build new_entry, append to the loaded copy, save.
finish_create_entry(s) ==
  /\ sess[s].pc = "loaded"
  /\ sess[s].op = "create_entry"
  /\ now < MaxClock
  /\ file' = save_data(create_data(sess[s].data, sess[s].args[1], sess[s].args[2],
                                   sess[s].args[3], now))
  /\ now' = now + 1
  /\ sess' = [sess EXCEPT ![s] =
                [pc |-> "saved", op |-> "create_entry", args |-> sess[s].args,
                 data |-> sess[s].data, at |-> now, seq |-> Saved + 1]]
  /\ Return("create_entry", sess[s].args, None)
  /\ UNCHANGED deleted

\* register_user up to and including `data = load_data()`.
begin_register_user(s, username, password, full_name) ==
  /\ exists
  /\ sess[s].pc = "idle"
  /\ sess' = [sess EXCEPT ![s] =
                [pc |-> "loaded", op |-> "register_user",
                 args |-> <<username, password, full_name>>, data |-> load_data]]
  /\ UNCHANGED <<file, now, deleted, called, argv, ret>>

\* The rest of register_user: the check against the loaded copy, then the save.
finish_register_user(s) ==
  /\ sess[s].pc = "loaded"
  /\ sess[s].op = "register_user"
  /\ \/ /\ username_exists(sess[s].data, sess[s].args[1])
        /\ sess' = [sess EXCEPT ![s] = [pc |-> "returned"]]
        /\ Return("register_user", sess[s].args, FALSE)
        /\ UNCHANGED <<file, now, deleted>>
     \/ /\ ~username_exists(sess[s].data, sess[s].args[1])
        /\ file' = save_data(register_data(sess[s].data, sess[s].args[1],
                                           sess[s].args[2], sess[s].args[3]))
        /\ sess' = [sess EXCEPT ![s] =
                      [pc |-> "saved", op |-> "register_user", args |-> sess[s].args,
                       data |-> sess[s].data, at |-> now, seq |-> Saved + 1]]
        /\ Return("register_user", sess[s].args, TRUE)
        /\ UNCHANGED <<now, deleted>>

NextConc ==
  \/ init_data /\ UNCHANGED created
  \/ \E s \in Sessions, sub \in Submissions :
       begin_create_entry(s, sub.user_id, sub.fields, sub.image_bytes)
       /\ UNCHANGED created
  \/ \E s \in Sessions : finish_create_entry(s) /\ UNCHANGED created
  \/ \E s \in Sessions, u \in Usernames, p \in Passwords, n \in FullNames :
       begin_register_user(s, u, p, n) /\ UNCHANGED created
  \/ \E s \in Sessions : finish_register_user(s) /\ UNCHANGED created

SpecConc == Init /\ [][NextConc]_vars

(* ------------------------------ claims --------------------------------- *)

Users == file.val.users
Entries == file.val.entries

\* No entry of document d has the given id.
Absent(d, id) == \A i \in 1..Len(d.entries) : d.entries[i].id # id

\* The five mutable fields of entry e are those of form submission f.
HasFields(e, f) ==
  /\ e.household_name = f.household_name
  /\ e.father_name = f.father_name
  /\ e.mobile_no = f.mobile_no
  /\ e.address = f.address
  /\ e.dustbin_number = f.dustbin_number

\* C1: in every reachable document no two entries have the same id.
C1_UniqueEntryIds ==
  exists => \A i, j \in 1..Len(Entries) : i # j => Entries[i].id # Entries[j].id

\* C2: register_user with a username some user already has returns False and
\* leaves the file as it was; and no two users of the file share a username.
C2_DuplicateRejected ==
  [][ /\ (/\ called' = "register_user"
          /\ exists
          /\ \E i \in 1..Len(Users) : Users[i].username = argv'[1])
         => (ret' = FALSE /\ file' = file)
      /\ file'.some =>
           \A i, j \in 1..Len(file'.val.users) :
             i # j => file'.val.users[i].username # file'.val.users[j].username
    ]_vars

\* C2 witness: a registration was rejected in a document that holds entries.
C2_Witness ==
  /\ exists
  /\ called = "register_user"
  /\ ret = FALSE
  /\ Len(Users) > 0
  /\ Len(Entries) > 0

\* C3: login_user(username, password) returns a user exactly when the file
\* holds a user with that username whose stored password is the digest of the
\* supplied password (and then returns such a user); otherwise it returns
\* None; and it leaves the file as it was.
C3_LoginIffMatch ==
  [][ (called' = "login_user" /\ exists) =>
        LET matches == {i \in 1..Len(Users) :
                          /\ Users[i].username = argv'[1]
                          /\ Users[i].password = hash_password(argv'[2])}
        IN /\ file' = file
           /\ matches # {} =>
                (ret'.some /\ ret'.val \in {Users[i] : i \in matches})
           /\ matches = {} => ~ret'.some
    ]_vars

\* C3 witness: a login succeeded while another user is registered too.
C3_Witness ==
  /\ exists
  /\ called = "login_user"
  /\ ret.some
  /\ Len(Users) = 2

\* C4: after create_entry calls only, get_entries(U) returns one entry per
\* create_entry call made with user_id U, in call order, each with that
\* call's user_id, fields, image presence and creation time.
C4_ListByUser ==
  (called = "get_entries" /\ exists) =>
    LET byU(c) == c.user_id = argv[1]
        calls == SelectSeq(created, byU)
        got == ret
    IN /\ Len(got) = Len(calls)
       /\ \A i \in 1..Len(calls) :
            /\ got[i].user_id = argv[1]
            /\ HasFields(got[i], calls[i].fields)
            /\ got[i].created_at = isoformat(calls[i].t)
            /\ got[i].image.some =
                 (calls[i].image_bytes.some /\ calls[i].image_bytes.val # <<>>)

\* C4 witness: get_entries returned two entries while the file holds a third,
\* created by the other user.
C4_Witness ==
  /\ exists
  /\ called = "get_entries"
  /\ Len(ret) = 2
  /\ Len(Entries) = 3

\* C5: get_entry(id) right after delete_entry(id) returns None; delete_entry
\* raises nothing, leaves no entry with that id, and leaves the file as it
\* was when no entry had that id.
C5_DeleteThenGet ==
  [][ /\ (/\ exists
          /\ called = "delete_entry"
          /\ called' = "get_entry"
          /\ argv' = argv)
         => ~ret'.some
      /\ (called' = "delete_entry" /\ exists) =>
           /\ ~ret'.some
           /\ Absent(file'.val, argv'[1])
           /\ Absent(file.val, argv'[1]) => file' = file
    ]_vars

\* C5 witness: delete_entry was called with an id it has removed, and other
\* entries remain.
C5_Witness ==
  /\ exists
  /\ called = "delete_entry"
  /\ argv[1] \in deleted
  /\ Len(Entries) > 0

\* C6: when an entry has the id, update_entry(id, newFields) leaves get_entry(id)
\* returning an entry with the five fields of newFields and the id, user_id,
\* created_at and image that get_entry(id) returned before the update.
C6_UpdateThenGet ==
  [][ /\ (/\ called' = "update_entry"
          /\ exists
          /\ ~Absent(file.val, argv'[1]))
         => LET before == find_entry(file.val, argv'[1]).val
                after == find_entry(file'.val, argv'[1])
            IN /\ after.some
               /\ HasFields(after.val, argv'[2])
               /\ after.val.id = before.id
               /\ after.val.user_id = before.user_id
               /\ after.val.created_at = before.created_at
               /\ after.val.image = before.image
      /\ (/\ exists
          /\ called = "update_entry"
          /\ called' = "get_entry"
          /\ argv'[1] = argv[1]
          /\ ~Absent(file.val, argv[1]))
         => (ret'.some /\ HasFields(ret'.val, argv[2]))
    ]_vars

\* C6 witness: update_entry gave the Shah House fields to an entry that was
\* created with the Rao Villa fields and a picture.
C6_Witness ==
  /\ exists
  /\ called = "update_entry"
  /\ argv[2] = ShahHouse
  /\ find_entry(file.val, argv[1]).some
  /\ find_entry(file.val, argv[1]).val.image.some
  /\ find_entry(file.val, argv[1]).val.household_name = "Shah House"

\* C7: no entry of the file has an id that delete_entry removed earlier (an id
\* in `deleted` is absent right after its deletion, so an entry that has it
\* was created later).
C7_IdsNotReused ==
  exists => \A i \in 1..Len(Entries) : Entries[i].id \notin deleted

\* C8: init_data creates exactly {users: [], entries: []} when the file is
\* absent and leaves the file as it was when it exists.
C8_InitDataIdempotent ==
  [][ called' = "init_data" =>
        IF file.some THEN file' = file
        ELSE file' = Some([users |-> <<>>, entries |-> <<>>])
    ]_vars

\* C8 witness: init_data was called on a file that holds users and entries.
C8_Witness ==
  /\ exists
  /\ called = "init_data"
  /\ Len(Users) > 0
  /\ Len(Entries) > 0

\* C9: delete_entry(id) removes at most one entry and leaves the entries with
\* another id, and their order, as they were.
C9_DeleteAtMostOne ==
  [][ (called' = "delete_entry" /\ exists) =>
        LET other(e) == e.id # argv'[1] IN
        /\ Len(Entries) - Len(file'.val.entries) \in {0, 1}
        /\ SelectSeq(file'.val.entries, other) = SelectSeq(Entries, other)
    ]_vars

\* C10: when both sessions loaded the same document and both saved, the file
\* is the document they loaded plus the one record of the session that saved
\* last: one record was added although two calls returned success.
C10_LastSaveWins ==
  \A s, t \in Sessions :
    (/\ s # t
     /\ sess[s].pc = "saved"
     /\ sess[t].pc = "saved"
     /\ sess[s].seq < sess[t].seq
     /\ sess[s].data = sess[t].data)
    => LET snap == sess[t].data IN
       IF sess[t].op = "create_entry"
       THEN /\ Users = snap.users
            /\ Len(Entries) = Len(snap.entries) + 1
            /\ SubSeq(Entries, 1, Len(snap.entries)) = snap.entries
            /\ Entries[Len(Entries)].user_id = sess[t].args[1]
            /\ Entries[Len(Entries)].created_at = isoformat(sess[t].at)
       ELSE /\ Entries = snap.entries
            /\ Len(Users) = Len(snap.users) + 1
            /\ SubSeq(Users, 1, Len(snap.users)) = snap.users
            /\ Users[Len(Users)].username = sess[t].args[1]
            /\ Users[Len(Users)].password = hash_password(sess[t].args[2])

\* C10 witness: both sessions ran create_entry on the empty document and both
\* saved, and the file holds one entry: the other session's entry is lost.
C10_Witness ==
  /\ \A s \in Sessions :
       /\ sess[s].pc = "saved"
       /\ sess[s].op = "create_entry"
       /\ sess[s].data = EmptyDocument
  /\ Len(Entries) = 1

====
